---- MODULE Spec2Model ----
(***************************************************************************)
(* A model of rustest's mlock tool: the Mmap region type (src/lib.rs), the *)
(* Mlock session, the Proc telemetry collector and main's controller loop  *)
(* (src/bin/mlock.rs), and the copy loop of pgmajfault's populate          *)
(* (src/bin/pgmajfault.rs).                                                *)
(*                                                                         *)
(* The kernel is the environment: every mmap, mlock and file read draws    *)
(* its response from a small set.  Address handles are abstract slots      *)
(* 1..MaxAddr, each one standing for a disjoint range of CHUNK bytes.      *)
(***************************************************************************)
EXTENDS Integers, Sequences, FiniteSets, TLC

\* ------------------------------------------------------------------ bounds
\* Address slots the kernel can hand out at the same time.
MaxAddr == 3
\* Calls of one kind counted by the session's call counters.
MaxCalls == 2
\* Counter values a source can hold are 0..MaxCount, besides one too large for
\* the type.
MaxCount == 2
\* Region lengths of fill on its own go up to MaxFillUnits half pages of 2048.
MaxFillUnits == 8
\* Regions the unlocked heap can hold when its fill bytes are followed alone.
MaxUnlocked == 257
\* Width of the counters' unsigned type in the model (u64 and usize in the code).
CounterBits == 16

\* ------------------------------------------------------- program constants
CHUNK_SIZE_MB == 256
\* u8: the width of the probe byte of Mlock::add.
U8_MODULUS == 256

\* The length in kilobytes instead of bytes.
ChunkLen_kb == CHUNK_SIZE_MB * 1024

\* The length Mlock::add asks for.
ChunkLen == CHUNK_SIZE_MB * 1024 * 1024

Addrs == 1..MaxAddr
\* libc::MAP_FAILED: mmap's answer when the kernel refuses the mapping.
MAP_FAILED == 0
MlockHeap == {"Locked", "Unlocked"}

VARIABLES
    mlock,      \* main's `mlock`: [locked, unlocked], two Vec<Mmap>
    os,         \* the kernel's view of the address space
    ret,        \* what the last session call returned
    calls,      \* call counters of the locked heap (history)
    last,       \* the last session call and the state it started from (history)
    prev,       \* the session call before the last one (history)
    pc,         \* where main is
    init_left,  \* iterations left of main's pre-population loop
    term,       \* the terminal: raw mode, cursor
    sys_prev,   \* main's `sys_prev`: Option<Proc>
    sys_given,  \* the counts of the `prev` the last Proc::collect was given (history)
    rendered,   \* the snapshot the last iteration rendered, if any (history)
    overflow_checks, \* the build profile: arithmetic overflow panics or wraps
    exit_code,  \* the process's exit status once it has stopped
    action,     \* the Action the last term_wait_action returned
    fn_in,      \* the input of a function applied on its own
    fn_out      \* and what the function returned

sessvars == <<mlock, os, ret>>
histvars == <<calls, last, prev>>
mainvars == <<pc, init_left, term, exit_code, action>>
televars == <<sys_prev, sys_given, rendered, overflow_checks>>
fnvars == <<fn_in, fn_out>>
vars == <<mlock, os, ret, calls, last, prev, pc, init_left, term, sys_prev,
          sys_given, rendered, overflow_checks, exit_code, action, fn_in,
          fn_out>>

\* ------------------------------------------------------------------ kernel
\* mapped: live mappings; locked: mappings with pages pinned; bytes: the byte
\* at the start of every page of a mapping; stale_unmap: munmap was called on
\* an address that holds no live mapping.
OsInit ==
    [mapped |-> {}, locked |-> {}, bytes |-> [a \in Addrs |-> 0],
     stale_unmap |-> FALSE]

\* ------------------------------------------------------------ Mmap (lib.rs)
NoMmap == [addr |-> MAP_FAILED, len |-> 0]

\* mmap_raw: `a` is the kernel's answer, a free address or MAP_FAILED.
mmap_raw(k, a, len) ==
    IF a = MAP_FAILED
    THEN [ok |-> FALSE, mmap |-> NoMmap, os |-> k]
    ELSE [ok |-> TRUE, mmap |-> [addr |-> a, len |-> len],
          os |-> [k EXCEPT !.mapped = @ \cup {a}, !.bytes[a] = 0]]

anonymous(k, a, len) == mmap_raw(k, a, len)

\* Mmap::mlock: `resp` is libc::mlock's return value, 0 for success.  A call
\* that fails changes no lock of the address space (mlock(2), RETURN VALUE).
Mmap_mlock(k, m, resp) ==
    IF resp # 0
    THEN [ok |-> FALSE, os |-> k]
    ELSE [ok |-> TRUE, os |-> [k EXCEPT !.locked = @ \cup {m.addr}]]

Mmap_munlock(k, m) == [k EXCEPT !.locked = @ \ {m.addr}]

\* A populate that leaves the region locked.
Mmap_populate_stays_locked(k, m, resp) ==
    LET l == Mmap_mlock(k, m, resp)
    IN  [ok |-> l.ok, os |-> l.os]

\* Mmap::populate: mlock()? then munlock().
Mmap_populate(k, m, resp) ==
    LET l == Mmap_mlock(k, m, resp)
    IN  IF ~l.ok THEN [ok |-> FALSE, os |-> l.os]
        ELSE [ok |-> TRUE, os |-> Mmap_munlock(l.os, m)]

\* Mmap::fill as the session sees it: val at the start of every page.
Mmap_fill(k, m, val) == [k EXCEPT !.bytes[m.addr] = val]

\* A drop that forgets the munmap.
Mmap_drop_leaks(k, m) == k

\* impl Drop for Mmap: munmap(addr, len); the result is discarded.  Unmapping
\* a whole live mapping succeeds.
Mmap_drop(k, m) ==
    IF m.addr \in k.mapped
    THEN [k EXCEPT !.mapped = @ \ {m.addr}, !.locked = @ \ {m.addr},
                   !.bytes[m.addr] = 0]
    ELSE [k EXCEPT !.stale_unmap = TRUE]

\* Dropping a Vec<Mmap>: every element, in order.
RECURSIVE Vec_drop(_, _)
Vec_drop(k, v) ==
    IF v = <<>> THEN k ELSE Vec_drop(Mmap_drop(k, Head(v)), Tail(v))

\* ------------------------------------------------------- Mlock (mlock.rs)
Mlock_new == [locked |-> <<>>, unlocked |-> <<>>]

\* A probe byte that is the count itself.
probe_byte_count(n) == n % U8_MODULUS

\* (self.unlocked.len() + 1) as u8
probe_byte(n) == (n + 1) % U8_MODULUS

\* An add that keeps the region whose locking failed.
Mlock_add_keeps(self, k, heap, a, resp) ==
    LET r == anonymous(k, a, ChunkLen)
    IN  IF ~r.ok THEN [self |-> self, os |-> r.os, ret |-> "Err"]
        ELSE IF heap = "Locked"
        THEN LET l == Mmap_mlock(r.os, r.mmap, resp)
             IN  [self |-> [self EXCEPT !.locked = Append(@, r.mmap)],
                  os |-> l.os, ret |-> IF l.ok THEN "Ok" ELSE "Err"]
        ELSE [self |-> [self EXCEPT !.unlocked = Append(@, r.mmap)],
              os |-> Mmap_fill(r.os, r.mmap, probe_byte(Len(self.unlocked))),
              ret |-> "Ok"]

\* Mlock::add.  `a` is mmap's answer and `resp` is mlock's.
Mlock_add(self, k, heap, a, resp) ==
    LET r == anonymous(k, a, ChunkLen)
    IN  IF ~r.ok THEN [self |-> self, os |-> r.os, ret |-> "Err"]
        ELSE IF heap = "Locked"
        THEN LET l == Mmap_mlock(r.os, r.mmap, resp)
             IN  IF ~l.ok
                 THEN [self |-> self, os |-> Mmap_drop(l.os, r.mmap),
                       ret |-> "Err"]
                 ELSE [self |-> [self EXCEPT !.locked = Append(@, r.mmap)],
                       os |-> l.os, ret |-> "Ok"]
        ELSE [self |-> [self EXCEPT !.unlocked = Append(@, r.mmap)],
              os |-> Mmap_fill(r.os, r.mmap, probe_byte(Len(self.unlocked))),
              ret |-> "Ok"]

\* A pop that hands out the last element and leaves it in the Vec.
Vec_pop_keeps(v) ==
    IF v = <<>> THEN [some |-> FALSE, item |-> NoMmap, vec |-> v]
    ELSE [some |-> TRUE, item |-> v[Len(v)], vec |-> v]

\* A pop from the front.
Vec_pop_front(v) ==
    IF v = <<>> THEN [some |-> FALSE, item |-> NoMmap, vec |-> v]
    ELSE [some |-> TRUE, item |-> Head(v), vec |-> Tail(v)]

\* Vec::pop: the last element, if any.
Vec_pop(v) ==
    IF v = <<>> THEN [some |-> FALSE, item |-> NoMmap, vec |-> v]
    ELSE [some |-> TRUE, item |-> v[Len(v)], vec |-> SubSeq(v, 1, Len(v) - 1)]

\* A remove with the two heaps confused.
Mlock_remove_swapped(self, k, heap) ==
    LET p == IF heap = "Unlocked" THEN Vec_pop(self.locked)
             ELSE Vec_pop(self.unlocked)
        s == IF heap = "Unlocked" THEN [self EXCEPT !.locked = p.vec]
             ELSE [self EXCEPT !.unlocked = p.vec]
    IN  [self |-> s,
         os |-> IF p.some THEN Mmap_drop(k, p.item) ELSE k,
         ret |-> IF p.some THEN "true" ELSE "false"]

\* Mlock::remove: pop, drop the popped region, report is_some().
Mlock_remove(self, k, heap) ==
    LET p == IF heap = "Locked" THEN Vec_pop(self.locked)
             ELSE Vec_pop(self.unlocked)
        s == IF heap = "Locked" THEN [self EXCEPT !.locked = p.vec]
             ELSE [self EXCEPT !.unlocked = p.vec]
    IN  [self |-> s,
         os |-> IF p.some THEN Mmap_drop(k, p.item) ELSE k,
         ret |-> IF p.some THEN "true" ELSE "false"]

\* A page_in that gives up at the first region whose populate fails.
RECURSIVE page_in_from_stops(_, _, _, _, _)
page_in_from_stops(self, k, resps, i, tried) ==
    IF i > Len(self.unlocked) THEN [os |-> k, tried |-> tried]
    ELSE LET p == Mmap_populate(k, self.unlocked[i], resps[i])
         IN  IF ~p.ok
             THEN [os |-> p.os, tried |-> Append(tried, self.unlocked[i].addr)]
             ELSE page_in_from_stops(self, p.os, resps, i + 1,
                                     Append(tried, self.unlocked[i].addr))

\* Mlock::page_in from index i on: `resps[j]` is mlock's answer for region j.
\* The result of populate is discarded and the loop goes on.
RECURSIVE page_in_from(_, _, _, _, _)
page_in_from(self, k, resps, i, tried) ==
    IF i > Len(self.unlocked) THEN [os |-> k, tried |-> tried]
    ELSE LET p == Mmap_populate(k, self.unlocked[i], resps[i])
         IN  page_in_from(self, p.os, resps, i + 1,
                          Append(tried, self.unlocked[i].addr))

Mlock_page_in(self, k, resps) ==
    LET p == page_in_from(self, k, resps, 1, <<>>)
    IN  [self |-> self, os |-> p.os, ret |-> "unit", tried |-> p.tried]

\* impl fmt::Display for Mlock: the two sizes in MB.
Mlock_fmt(self) ==
    [locked_mb |-> Len(self.locked) * CHUNK_SIZE_MB,
     unlocked_mb |-> Len(self.unlocked) * CHUNK_SIZE_MB]

\* ------------------------------------------------------- Proc (mlock.rs)
\* u64 arithmetic, scaled to CounterBits bits: the wrap-around and the overflow
\* check are those of the 64-bit type.
U64_MODULUS == 2 ^ CounterBits

\* A line of a counter source: `key` is the known prefix the line starts with
\* ("other" for none, "io_error" for a line that cannot be read) and `toks` are
\* its whitespace-separated tokens after the first.  A token is the number it
\* spells, or NotNumeric.
NotNumeric == -1
Line(key, toks) == [key |-> key, toks |-> toks]
Source(readable, lines) == [readable |-> readable, lines |-> lines]
Unreadable == Source(FALSE, <<>>)

\* str::parse::<u64>().ok(): a decimal number that fits the type.
parse_u64(tok) ==
    IF tok # NotNumeric /\ tok >= 0 /\ tok < U64_MODULUS
    THEN [some |-> TRUE, val |-> tok] ELSE [some |-> FALSE, val |-> 0]

\* extract_val: split_ascii_whitespace().nth(1), parsed, or the default 0.
extract_val(line) ==
    IF Len(line.toks) >= 1 /\ parse_u64(line.toks[1]).some
    THEN parse_u64(line.toks[1]).val ELSE 0

\* A line loop that reads on after the AnonPages line.
RECURSIVE meminfo_from_nobreak(_, _, _)
meminfo_from_nobreak(self, lines, i) ==
    IF i > Len(lines) THEN [self |-> self, ret |-> "Ok"]
    ELSE LET line == lines[i]
             next == IF line.key = "Mlocked:"
                     THEN [self EXCEPT !.mlocked = extract_val(line)]
                     ELSE IF line.key = "SwapTotal:"
                     THEN [self EXCEPT !.swap_total = extract_val(line)]
                     ELSE IF line.key = "SwapFree:"
                     THEN [self EXCEPT !.swap_free = extract_val(line)]
                     ELSE IF line.key = "AnonPages:"
                     THEN [self EXCEPT !.anon_pages = extract_val(line)]
                     ELSE self
         IN  IF line.key = "io_error" THEN [self |-> self, ret |-> "Err"]
             ELSE meminfo_from_nobreak(next, lines, i + 1)

\* The line loop of collect_meminfo from line i on: the first matching prefix
\* decides, and the AnonPages line ends the loop.
RECURSIVE meminfo_from(_, _, _)
meminfo_from(self, lines, i) ==
    IF i > Len(lines) THEN [self |-> self, ret |-> "Ok"]
    ELSE LET line == lines[i]
         IN  IF line.key = "io_error" THEN [self |-> self, ret |-> "Err"]
             ELSE IF line.key = "Mlocked:"
             THEN meminfo_from([self EXCEPT !.mlocked = extract_val(line)],
                               lines, i + 1)
             ELSE IF line.key = "SwapTotal:"
             THEN meminfo_from([self EXCEPT !.swap_total = extract_val(line)],
                               lines, i + 1)
             ELSE IF line.key = "SwapFree:"
             THEN meminfo_from([self EXCEPT !.swap_free = extract_val(line)],
                               lines, i + 1)
             ELSE IF line.key = "AnonPages:"
             THEN [self |-> [self EXCEPT !.anon_pages = extract_val(line)],
                   ret |-> "Ok"]
             ELSE meminfo_from(self, lines, i + 1)

\* Proc::collect_meminfo: File::open("/proc/meminfo")? then the line loop.
collect_meminfo(self, src) ==
    IF ~src.readable THEN [self |-> self, ret |-> "Err"]
    ELSE meminfo_from(self, src.lines, 1)

\* strip_prefix(..) then val.parse(): the whole rest of the line is the number.
parse_rest(line) ==
    IF Len(line.toks) = 1 /\ parse_u64(line.toks[1]).some
    THEN parse_u64(line.toks[1]).val ELSE 0

\* The line loop of collect_vmstat; the pswpout line ends the loop.
RECURSIVE vmstat_from(_, _, _)
vmstat_from(self, lines, i) ==
    IF i > Len(lines) THEN [self |-> self, ret |-> "Ok"]
    ELSE LET line == lines[i]
         IN  IF line.key = "io_error" THEN [self |-> self, ret |-> "Err"]
             ELSE IF line.key = "pswpin "
             THEN vmstat_from([self EXCEPT !.pswpin = parse_rest(line)],
                              lines, i + 1)
             ELSE IF line.key = "pswpout "
             THEN [self |-> [self EXCEPT !.pswpout = parse_rest(line)],
                   ret |-> "Ok"]
             ELSE vmstat_from(self, lines, i + 1)

\* Proc::collect_vmstat.
collect_vmstat(self, src) ==
    IF ~src.readable THEN [self |-> self, ret |-> "Err"]
    ELSE vmstat_from(self, src.lines, 1)

\* u64 `-`: with overflow checks (the dev profile) a result below zero panics,
\* without them (the release profile) it wraps.
u64_sub(a, b, checks) ==
    IF a >= b THEN [panic |-> FALSE, val |-> a - b]
    ELSE IF checks THEN [panic |-> TRUE, val |-> 0]
    ELSE [panic |-> FALSE, val |-> a - b + U64_MODULUS]

\* usize `*`, the same way.
usize_mul(a, b, checks) ==
    IF a * b < U64_MODULUS THEN [panic |-> FALSE, val |-> a * b]
    ELSE IF checks THEN [panic |-> TRUE, val |-> 0]
    ELSE [panic |-> FALSE, val |-> (a * b) % U64_MODULUS]

\* rustest::page_size(): the host's page size.
page_size == 4096

ProcZero ==
    [page_size |-> page_size, mlocked |-> 0, swap_total |-> 0, swap_free |-> 0,
     anon_pages |-> 0, pswpin |-> 0, pswpout |-> 0,
     pswpin_delta |-> 0, pswpout_delta |-> 0]

None == [some |-> FALSE, val |-> ProcZero]
\* A Some that holds nothing.
Some_forgets(p) == None

Some(p) == [some |-> TRUE, val |-> p]

\* What a collect was given as `prev`: whether there was one, and its counts.
Given(prv) ==
    [some |-> prv.some, pswpin |-> prv.val.pswpin, pswpout |-> prv.val.pswpout]

\* Proc::collect: both collectors' results are discarded; the deltas are plain
\* subtractions from the previous snapshot.
Proc_collect(prv, meminfo, vmstat, checks) ==
    LET p1 == collect_meminfo(ProcZero, meminfo).self
        p2 == collect_vmstat(p1, vmstat).self
    IN  IF ~prv.some THEN [panic |-> FALSE, proc |-> p2]
        ELSE LET din == u64_sub(p2.pswpin, prv.val.pswpin, checks)
                 dout == u64_sub(p2.pswpout, prv.val.pswpout, checks)
             IN  IF din.panic \/ dout.panic
                 THEN [panic |-> TRUE, proc |-> p2]
                 ELSE [panic |-> FALSE,
                       proc |-> [p2 EXCEPT !.pswpin_delta = din.val,
                                           !.pswpout_delta = dout.val]]

NoResult == [panic |-> FALSE, proc |-> ProcZero]

\* impl fmt::Display for Proc: the numbers it prints, or the panic of one of
\* its unchecked operations.
Proc_fmt(self, checks) ==
    LET mb == self.mlocked \div 1024
        anon == self.anon_pages \div 1024
        swap == u64_sub(self.swap_total \div 1024, self.swap_free \div 1024,
                        checks)
        sin == usize_mul(self.pswpin_delta, self.page_size, checks)
        sout == usize_mul(self.pswpout_delta, self.page_size, checks)
    IN  [panic |-> swap.panic \/ sin.panic \/ sout.panic,
         locked |-> mb,
         unlocked |-> IF anon >= mb THEN anon - mb ELSE 0,
         swap |-> swap.val,
         swap_in |-> (sin.val \div 1024) \div 1024,
         swap_out |-> (sout.val \div 1024) \div 1024]

\* ----------------------------------------------------------- call history
CallsInit == [add |-> 0, add_err |-> 0, remove |-> 0, remove_hit |-> 0]

NoCall == [op |-> "none", heap |-> "none", ret |-> "none"]

\* The call just made: what it was, what it returned, the state it started
\* from, the kernel's answers to the mmap and mlock calls it made and
\* (page_in) the regions it tried, in order.
Note(op, heap, r, a, resps, tried) ==
    [op |-> op, heap |-> heap, ret |-> r.ret, pre |-> mlock, pre_os |-> os,
     mmap_ans |-> a, resps |-> resps, tried |-> tried]

NoNote ==
    [op |-> "none", heap |-> "none", ret |-> "none", pre |-> Mlock_new,
     pre_os |-> OsInit, mmap_ans |-> MAP_FAILED, resps |-> <<>>,
     tried |-> <<>>]

Brief(n) == [op |-> n.op, heap |-> n.heap, ret |-> n.ret]

\* ------------------------------------------------------------ Term (lib.rs)
TermInit == [raw |-> FALSE, cursor_hidden |-> FALSE]

\* A disable_raw_mode that leaves the terminal as it is.
disable_raw_mode_noop(t) == t

\* terminal::enable_raw_mode() and terminal::disable_raw_mode(), succeeding.
enable_raw_mode(t) == [t EXCEPT !.raw = TRUE]
disable_raw_mode(t) == [t EXCEPT !.raw = FALSE]

\* Term::new / Term::init: `resp` says which of the two terminal calls fails.
\* enable_raw_mode()?; then cursor::Hide, whose failure disables raw mode
\* before the error is returned.
Term_new(t, resp) ==
    IF resp = "raw_err" THEN [ok |-> FALSE, term |-> t]
    ELSE IF resp = "hide_err"
    THEN [ok |-> FALSE, term |-> disable_raw_mode(enable_raw_mode(t))]
    ELSE [ok |-> TRUE,
          term |-> [enable_raw_mode(t) EXCEPT !.cursor_hidden = TRUE]]

\* Term::reset (and impl Drop for Term, which calls it): cursor::Show, then
\* disable_raw_mode(); both results are discarded.
Term_reset(t) == disable_raw_mode([t EXCEPT !.cursor_hidden = FALSE])

\* ------------------------------------------------ controller (mlock.rs)
Redraw == [kind |-> "Redraw", heap |-> "none"]
Quit == [kind |-> "Quit", heap |-> "none"]
ActAdd(heap) == [kind |-> "Add", heap |-> heap]
ActRemove(heap) == [kind |-> "Remove", heap |-> heap]
ActPageIn == [kind |-> "PageIn", heap |-> "none"]
NoAction == [kind |-> "none", heap |-> "none"]

\* What Term::poll(1000) can return: a key, no key (a timeout or another
\* event), or an error.
Modifiers == {"NONE", "SHIFT", "CONTROL", "ALT", "CONTROL|SHIFT"}
Codes == {"+", "=", "-", "_", "]", "}", "[", "{", "p", "P", "q", "Esc",
          "c", "d", "x"}
Polls ==
    {[res |-> "Err", modifiers |-> "NONE", code |-> "x"],
     [res |-> "None", modifiers |-> "NONE", code |-> "x"]}
    \cup [res : {"Key"}, modifiers : Modifiers, code : Codes]

\* A decoder that takes every chord holding Control for the Control chord.
term_wait_action_any_control(poll) ==
    IF poll.res = "None" THEN Redraw
    ELSE IF poll.res = "Err" THEN Quit
    ELSE IF poll.modifiers \in {"CONTROL", "CONTROL|SHIFT"}
    THEN IF poll.code \in {"c", "d"} THEN Quit ELSE Redraw
    ELSE IF poll.modifiers \in {"SHIFT", "NONE"}
    THEN CASE poll.code \in {"+", "="} -> ActAdd("Locked")
           [] poll.code \in {"-", "_"} -> ActRemove("Locked")
           [] poll.code \in {"]", "}"} -> ActAdd("Unlocked")
           [] poll.code \in {"[", "{"} -> ActRemove("Unlocked")
           [] poll.code \in {"p", "P"} -> ActPageIn
           [] poll.code \in {"q", "Esc"} -> Quit
           [] OTHER -> Redraw
    ELSE Redraw

\* term_wait_action.
term_wait_action(poll) ==
    IF poll.res = "None" THEN Redraw
    ELSE IF poll.res = "Err" THEN Quit
    ELSE IF poll.modifiers = "CONTROL"
    THEN IF poll.code \in {"c", "d"} THEN Quit ELSE Redraw
    ELSE IF poll.modifiers \in {"SHIFT", "NONE"}
    THEN CASE poll.code \in {"+", "="} -> ActAdd("Locked")
           [] poll.code \in {"-", "_"} -> ActRemove("Locked")
           [] poll.code \in {"]", "}"} -> ActAdd("Unlocked")
           [] poll.code \in {"[", "{"} -> ActRemove("Unlocked")
           [] poll.code \in {"p", "P"} -> ActPageIn
           [] poll.code \in {"q", "Esc"} -> Quit
           [] OTHER -> Redraw
    ELSE Redraw

\* mmap's possible answers in the current state.
MmapAnswers == {MAP_FAILED} \cup (Addrs \ os.mapped)
\* mlock's possible answers: 0, or -1 with errno set.
MlockAnswers == {0, -1}

\* Dropping main's `mlock`: both Vecs, in field order.
Mlock_drop(self, k) == Vec_drop(Vec_drop(k, self.locked), self.unlocked)

\* main's first argument and the region count it gives: absent or unparsable
\* is 0.
InitMbs == {0, CHUNK_SIZE_MB - 1, CHUNK_SIZE_MB, 2 * CHUNK_SIZE_MB + 1}
init_count(init_mb) == init_mb \div CHUNK_SIZE_MB

\* The counter sources main's specification reads.  MemInfo is a source in the
\* kernel's line order; the two swap fields vary.
MemInfo(m, t, f, a) ==
    Source(TRUE, <<Line("other", <<1024, NotNumeric>>),
                   Line("Mlocked:", <<m, NotNumeric>>),
                   Line("SwapTotal:", <<t, NotNumeric>>),
                   Line("SwapFree:", <<f, NotNumeric>>),
                   Line("AnonPages:", <<a, NotNumeric>>)>>)
VmStat(i, o) ==
    Source(TRUE, <<Line("other", <<7>>), Line("pswpin ", <<i>>),
                   Line("pswpout ", <<o>>)>>)
MainCounts == {0, MaxCount}
\* A source without its SwapTotal line.
MemInfoNoSwapTotal(m, f, a) ==
    Source(TRUE, <<Line("Mlocked:", <<m, NotNumeric>>),
                   Line("SwapFree:", <<f, NotNumeric>>),
                   Line("AnonPages:", <<a, NotNumeric>>)>>)
MainMemInfos ==
    {Unreadable, MemInfoNoSwapTotal(1024, MaxCount * 1024, 2048)} \cup
    {MemInfo(1024, t * 1024, f * 1024, 2048) : t \in MainCounts, f \in MainCounts}
MainVmStats == {Unreadable} \cup {VmStat(i, i) : i \in MainCounts}

MainInit ==
    /\ mlock = Mlock_new
    /\ os = OsInit
    /\ ret = "none"
    /\ calls = CallsInit
    /\ last = NoNote
    /\ prev = NoCall
    /\ pc = "prepopulate"
    /\ \E mb \in InitMbs : init_left = init_count(mb)
    /\ term = TermInit
    /\ sys_prev = None
    /\ sys_given = Given(None)
    /\ rendered = None
    /\ overflow_checks \in BOOLEAN
    /\ exit_code = -1
    /\ action = NoAction
    /\ fn_in = Unreadable
    /\ fn_out = NoResult

\* for _ in 0..init_count { let _ = mlock.add(MlockHeap::Locked); }
Prepopulate ==
    /\ pc = "prepopulate"
    /\ init_left > 0
    /\ \E a \in MmapAnswers, resp \in MlockAnswers :
        LET r == Mlock_add(mlock, os, "Locked", a, resp)
        IN  /\ mlock' = r.self
            /\ os' = r.os
            /\ ret' = r.ret
    /\ init_left' = init_left - 1
    /\ UNCHANGED <<pc, term, exit_code, action, histvars, televars, fnvars>>

\* main returns or unwinds: `term` (if it exists) is dropped, then `mlock`.
\* From then on `mlock` shows the regions main held when it was dropped.
Leave(code, t) ==
    /\ pc' = "exit"
    /\ exit_code' = code
    /\ term' = t
    /\ os' = Mlock_drop(mlock, os)
    /\ UNCHANGED mlock

\* let mut term = rustest::Term::new()?;
TermNew ==
    /\ pc = "prepopulate"
    /\ init_left = 0
    /\ \E resp \in {"ok", "raw_err", "hide_err"} :
        LET r == Term_new(term, resp)
        IN  IF r.ok
            THEN /\ pc' = "collect"
                 /\ term' = r.term
                 /\ UNCHANGED <<mlock, os, exit_code>>
            ELSE Leave(1, r.term)
    /\ UNCHANGED <<ret, init_left, action, histvars, televars, fnvars>>

\* The loop's first half: Proc::collect(sys_prev), the three lines rendered,
\* sys_prev = Some(sys).  A panic unwinds main.
Collect ==
    /\ pc = "collect"
    /\ \E meminfo \in MainMemInfos, vmstat \in MainVmStats :
        LET c == Proc_collect(sys_prev, meminfo, vmstat, overflow_checks)
        IN  IF c.panic \/ Proc_fmt(c.proc, overflow_checks).panic
            THEN /\ Leave(101, Term_reset(term))
                 /\ UNCHANGED <<sys_prev, sys_given, rendered>>
            ELSE /\ sys_given' = Given(sys_prev)
                 /\ rendered' = [some |-> TRUE, val |-> c.proc]
                 /\ sys_prev' = Some(c.proc)
                 /\ pc' = "wait"
                 /\ UNCHANGED <<mlock, os, term, exit_code>>
    /\ UNCHANGED <<ret, init_left, action, overflow_checks, histvars, fnvars>>

\* The loop's second half, by the action term_wait_action returns.
Decoded(act) == act \in {term_wait_action(poll) : poll \in Polls}

WaitRedraw ==
    /\ pc = "wait"
    /\ Decoded(Redraw)
    /\ action' = Redraw
    /\ pc' = "collect"
    /\ UNCHANGED <<sessvars, init_left, term, exit_code, histvars, televars, fnvars>>

\* break; term.reset(); println!(); Ok(())
WaitQuit ==
    /\ pc = "wait"
    /\ Decoded(Quit)
    /\ action' = Quit
    /\ Leave(0, Term_reset(Term_reset(term)))
    /\ UNCHANGED <<ret, init_left, histvars, televars, fnvars>>

WaitAdd(heap) ==
    /\ pc = "wait"
    /\ Decoded(ActAdd(heap))
    /\ action' = ActAdd(heap)
    /\ \E a \in MmapAnswers, resp \in MlockAnswers :
        LET r == Mlock_add(mlock, os, heap, a, resp)
        IN  /\ mlock' = r.self
            /\ os' = r.os
            /\ ret' = r.ret
    /\ pc' = "collect"
    /\ UNCHANGED <<init_left, term, exit_code, histvars, televars, fnvars>>

WaitRemove(heap) ==
    /\ pc = "wait"
    /\ Decoded(ActRemove(heap))
    /\ action' = ActRemove(heap)
    /\ LET r == Mlock_remove(mlock, os, heap)
       IN  /\ mlock' = r.self
           /\ os' = r.os
           /\ ret' = r.ret
    /\ pc' = "collect"
    /\ UNCHANGED <<init_left, term, exit_code, histvars, televars, fnvars>>

WaitPageIn ==
    /\ pc = "wait"
    /\ Decoded(ActPageIn)
    /\ action' = ActPageIn
    /\ \E resps \in [1..Len(mlock.unlocked) -> MlockAnswers] :
        LET r == Mlock_page_in(mlock, os, resps)
        IN  /\ mlock' = r.self
            /\ os' = r.os
            /\ ret' = r.ret
    /\ pc' = "collect"
    /\ UNCHANGED <<init_left, term, exit_code, histvars, televars, fnvars>>

Next ==
    \/ Prepopulate
    \/ TermNew
    \/ Collect
    \/ WaitRedraw
    \/ WaitQuit
    \/ \E heap \in MlockHeap : WaitAdd(heap)
    \/ \E heap \in MlockHeap : WaitRemove(heap)
    \/ WaitPageIn

Spec == MainInit /\ [][Next]_vars

\* ------------------------------------------------- the session under calls
SessionInit ==
    /\ mlock = Mlock_new
    /\ os = OsInit
    /\ ret = "none"
    /\ calls = CallsInit
    /\ last = NoNote
    /\ prev = NoCall
    /\ pc = "session"
    /\ init_left = 0
    /\ term = TermInit
    /\ sys_prev = None
    /\ sys_given = Given(None)
    /\ rendered = None
    /\ overflow_checks = FALSE
    /\ exit_code = -1
    /\ action = NoAction
    /\ fn_in = Unreadable
    /\ fn_out = NoResult

Add(heap) ==
    \E a \in MmapAnswers, resp \in MlockAnswers :
        LET r == Mlock_add(mlock, os, heap, a, resp)
        IN  /\ heap = "Locked" => calls.add < MaxCalls
            /\ mlock' = r.self
            /\ os' = r.os
            /\ ret' = r.ret
            /\ calls' = IF heap = "Locked"
                        THEN [calls EXCEPT !.add = @ + 1,
                                !.add_err = @ + (IF r.ret = "Err" THEN 1 ELSE 0)]
                        ELSE calls
            /\ last' = Note("add", heap, r, a,
                             IF heap = "Locked" /\ a # MAP_FAILED
                             THEN <<resp>> ELSE <<>>, <<>>)
            /\ prev' = Brief(last)
            /\ UNCHANGED <<mainvars, televars, fnvars>>

Remove(heap) ==
    LET r == Mlock_remove(mlock, os, heap)
    IN  /\ heap = "Locked" => calls.remove < MaxCalls
        /\ mlock' = r.self
        /\ os' = r.os
        /\ ret' = r.ret
        /\ calls' = IF heap = "Locked"
                    THEN [calls EXCEPT !.remove = @ + 1,
                            !.remove_hit = @ + (IF r.ret = "true" THEN 1 ELSE 0)]
                    ELSE calls
        /\ last' = Note("remove", heap, r, MAP_FAILED, <<>>, <<>>)
        /\ prev' = Brief(last)
        /\ UNCHANGED <<mainvars, televars, fnvars>>

PageIn ==
    \E resps \in [1..Len(mlock.unlocked) -> MlockAnswers] :
        LET r == Mlock_page_in(mlock, os, resps)
        IN  /\ mlock' = r.self
            /\ os' = r.os
            /\ ret' = r.ret
            /\ UNCHANGED calls
            /\ last' = Note("page_in", "Unlocked", r, MAP_FAILED, resps, r.tried)
            /\ prev' = Brief(last)
            /\ UNCHANGED <<mainvars, televars, fnvars>>

SessionNext ==
    \/ \E heap \in MlockHeap : Add(heap)
    \/ \E heap \in MlockHeap : Remove(heap)
    \/ PageIn

SessionSpec == SessionInit /\ [][SessionNext]_vars

\* ------------------------------------------- Proc::collect under sources
\* The tokens a counter line can hold: a count, the largest value of the type,
\* a number too large for it, or no number.
CountTokens == (0..MaxCount) \cup {U64_MODULUS - 1, U64_MODULUS, NotNumeric}
VmLines ==
    {Line(key, <<tok>>) : key \in {"pswpin ", "pswpout ", "other"},
                          tok \in CountTokens}
VmStats ==
    {Unreadable} \cup
    {Source(TRUE, lines) : lines \in UNION {[1..n -> VmLines] : n \in 0..2}}

TelemetryInit ==
    /\ mlock = Mlock_new
    /\ os = OsInit
    /\ ret = "none"
    /\ calls = CallsInit
    /\ last = NoNote
    /\ prev = NoCall
    /\ pc = "telemetry"
    /\ init_left = 0
    /\ term = TermInit
    /\ sys_prev = None
    /\ sys_given = Given(None)
    /\ rendered = None
    /\ overflow_checks \in BOOLEAN
    /\ exit_code = -1
    /\ action = NoAction
    /\ fn_in = Unreadable
    /\ fn_out = NoResult

\* sys = Proc::collect(sys_prev); sys_prev = Some(sys): the chain of snapshots
\* main builds, over every content of the paging-activity source.
CollectNext ==
    /\ pc = "telemetry"
    /\ \E meminfo \in {Unreadable, MemInfo(1024, 2048, 1024, 2048)},
          vmstat \in VmStats :
        LET c == Proc_collect(sys_prev, meminfo, vmstat, overflow_checks)
        IN  /\ sys_given' = Given(sys_prev)
            /\ IF c.panic
               THEN /\ pc' = "exit"
                    /\ exit_code' = 101
                    /\ UNCHANGED <<sys_prev, rendered>>
               ELSE /\ sys_prev' = Some(c.proc)
                    /\ rendered' = [some |-> TRUE, val |-> c.proc]
                    /\ UNCHANGED <<pc, exit_code>>
    /\ UNCHANGED <<sessvars, histvars, init_left, term, action,
                   overflow_checks, fnvars>>

TelemetrySpec == TelemetryInit /\ [][CollectNext]_vars

\* --------------------------------------- collect_meminfo under sources
FieldKeys == {"Mlocked:", "SwapTotal:", "SwapFree:", "AnonPages:"}
\* The four known fields, any subset of them, in any order.
FieldOrders ==
    {o \in UNION {[1..n -> FieldKeys] : n \in 0..4} :
        \A i, j \in 1..Len(o) : o[i] = o[j] => i = j}
\* What follows the label on a line: a value and its unit, a value too large
\* for the type, something that is no number, or nothing.
FieldTokens ==
    {<<v, NotNumeric>> : v \in 1..MaxCount} \cup
    {<<U64_MODULUS, NotNumeric>>, <<NotNumeric, NotNumeric>>, <<>>}

MeminfoInit ==
    /\ mlock = Mlock_new
    /\ os = OsInit
    /\ ret = "none"
    /\ calls = CallsInit
    /\ last = NoNote
    /\ prev = NoCall
    /\ pc = "apply"
    /\ init_left = 0
    /\ term = TermInit
    /\ sys_prev = None
    /\ sys_given = Given(None)
    /\ rendered = None
    /\ overflow_checks \in BOOLEAN
    /\ exit_code = -1
    /\ action = NoAction
    /\ \E o \in FieldOrders : \E t \in [1..Len(o) -> FieldTokens] :
          fn_in = Source(TRUE, [i \in 1..Len(o) |-> Line(o[i], t[i])])
    /\ fn_out = NoResult

\* Proc::collect(None) on the source drawn.
MeminfoApply ==
    /\ pc = "apply"
    /\ fn_out' = Proc_collect(None, fn_in, Unreadable, overflow_checks)
    /\ pc' = "applied"
    /\ UNCHANGED <<sessvars, histvars, init_left, term, exit_code, action,
                   televars, fn_in>>

MeminfoSpec == MeminfoInit /\ [][MeminfoApply]_vars

\* ------------------------------------------ functions applied on their own
\* Everything but the function's input and output: nothing mapped, no terminal, no
\* snapshot, either build profile.
PureInit(start) ==
    /\ mlock = Mlock_new
    /\ os = OsInit
    /\ ret = "none"
    /\ calls = CallsInit
    /\ last = NoNote
    /\ prev = NoCall
    /\ pc = start
    /\ init_left = 0
    /\ term = TermInit
    /\ sys_prev = None
    /\ sys_given = Given(None)
    /\ rendered = None
    /\ overflow_checks \in BOOLEAN
    /\ exit_code = -1
    /\ action = NoAction

\* ------------------------------------------------- Mmap::fill, byte by byte
\* usize in the model: as wide as the counters.
USIZE_MODULUS == 2 ^ CounterBits

\* `x as usize` of a c_long: a negative value becomes a huge one.
as_usize(x) == x % USIZE_MODULUS

\* The page size fill falls back to.
FILL_DEFAULT_PAGE_SIZE == 4096

\* let mut page_size = sysconf(_SC_PAGE_SIZE) as usize;
\* if page_size <= 0 { page_size = 4096; }
fill_page_size(sysconf) ==
    IF as_usize(sysconf) <= 0 THEN FILL_DEFAULT_PAGE_SIZE ELSE as_usize(sysconf)

\* Mmap::fill(val) on a region of `len` bytes: the bytes it writes, offset by
\* offset, or a panic.  page_count = (len + page_size - 1) / page_size, the
\* sum and the difference panicking on overflow when the build checks and
\* wrapping when it does not; bytes[page * page_size] panics past the end of
\* the slice.
Mmap_fill_bytes(len, sysconf, val, checks) ==
    LET ps == fill_page_size(sysconf)
        sum == len + ps
        dif == (sum % USIZE_MODULUS) - 1
        page_count == (dif % USIZE_MODULUS) \div ps
        offsets == {page * ps : page \in 0..(page_count - 1)}
        inside == {o \in offsets : o < len}
    IN  IF checks /\ (sum >= USIZE_MODULUS \/ dif < 0)
        THEN [panic |-> TRUE, writes |-> <<>>]
        ELSE [panic |-> inside # offsets, writes |-> [o \in inside |-> val]]

\* What sysconf(_SC_PAGE_SIZE) answers: -1 on error, else the page size.
SysconfAnswers == {-1, 0, 4096, 16384}
\* Region lengths around the page boundaries.
FillLens == {n * 2048 + d : n \in 0..MaxFillUnits, d \in {0, 1}} \ {0}

FillInit ==
    /\ PureInit("fill")
    /\ fn_out = NoResult
    /\ fn_in \in [len : FillLens, sysconf : SysconfAnswers, val : {1, 255}]

FillApply ==
    /\ pc = "fill"
    /\ fn_out' = Mmap_fill_bytes(fn_in.len, fn_in.sysconf, fn_in.val,
                               overflow_checks)
    /\ pc' = "filled"
    /\ UNCHANGED <<sessvars, histvars, init_left, term, exit_code, action,
                   televars, fn_in>>

FillSpec == FillInit /\ [][FillApply]_vars

\* ------------------------------------------- term_wait_action on its own
DecodeInit ==
    /\ PureInit("decode")
    /\ fn_out = NoResult
    /\ fn_in \in Polls

\* term_wait_action on the poll result drawn.
DecodeApply ==
    /\ pc = "decode"
    /\ fn_out' = term_wait_action(fn_in)
    /\ pc' = "decoded"
    /\ UNCHANGED <<sessvars, histvars, init_left, term, exit_code, action,
                   televars, fn_in>>

DecodeSpec == DecodeInit /\ [][DecodeApply]_vars

\* ------------------------------------------- the two populate strategies
\* The pages of a region of `len` bytes, numbered from 0.
PagesOf(len, ps) == 0..((len - 1) \div ps)

\* The pages holding a byte of offset .. offset + copy - 1.
PagesIn(len, ps, offset, copy) ==
    {p \in PagesOf(len, ps) : p * ps < offset + copy /\ (p + 1) * ps > offset}

\* rustest::Mmap::populate (lib.rs) page by page: a successful mlock has
\* faulted in every page of the range, a failed one guarantees none.
Mmap_populate_pages(len, ps, resp) ==
    LET m == [addr |-> 1, len |-> len]
        p == Mmap_populate(mmap_raw(OsInit, m.addr, len).os, m, resp)
    IN  [ret |-> IF p.ok THEN "Ok" ELSE "Err",
         resident |-> IF p.ok THEN PagesOf(len, ps) ELSE {}]

\* const BUF_SIZE: usize = 4096;
BUF_SIZE == 4096

\* The while loop of pgmajfault's Mmap::populate: offset advances by
\* copy = min(len - offset, BUF_SIZE).  The memcpy writes to a by-value copy
\* of an uninitialised array that is never read: `reads` says whether the
\* build's memcpy reads the source at all.
RECURSIVE copy_loop(_, _, _, _, _)
copy_loop(len, ps, offset, reads, touched) ==
    IF ~(offset < len) THEN touched
    ELSE LET copy == IF len - offset < BUF_SIZE THEN len - offset
                     ELSE BUF_SIZE
         IN  copy_loop(len, ps, offset + copy, reads,
                       IF reads THEN touched \cup PagesIn(len, ps, offset, copy)
                       ELSE touched)

\* pgmajfault's Mmap::populate: always Ok(()).
pgmajfault_populate(len, ps, reads) ==
    [ret |-> "Ok", resident |-> copy_loop(len, ps, 0, reads, {})]

\* The page sizes of the platforms: 4 KiB and 16 KiB.
PageSizes == {4096, 16384}
PopulateLens == FillLens

PopulateInit ==
    /\ PureInit("populate")
    /\ fn_out = NoResult
    /\ fn_in \in [len : PopulateLens, page_size : PageSizes,
                  resp : MlockAnswers, reads : BOOLEAN]

\* Both strategies on a region of the same length, nothing resident before.
PopulateApply ==
    /\ pc = "populate"
    /\ fn_out' = [lock |-> Mmap_populate_pages(fn_in.len, fn_in.page_size,
                                               fn_in.resp),
                  copy |-> pgmajfault_populate(fn_in.len, fn_in.page_size,
                                               fn_in.reads)]
    /\ pc' = "populated"
    /\ UNCHANGED <<sessvars, histvars, init_left, term, exit_code, action,
                   televars, fn_in>>

PopulateSpec == PopulateInit /\ [][PopulateApply]_vars

\* ------------------------------------ the fill bytes of the unlocked heap
\* The unlocked heap as the sequence of the bytes its regions were filled
\* with, every mmap granted: fn_out is the heap, fn_in the last call.
ProbeInit ==
    /\ PureInit("probe")
    /\ fn_out = <<>>
    /\ fn_in = [op |-> "none", n |-> 0]

\* Mlock::add(Unlocked): fill((self.unlocked.len() + 1) as u8), then push.
ProbeAdd ==
    /\ pc = "probe"
    /\ Len(fn_out) < MaxUnlocked
    /\ fn_out' = Append(fn_out, probe_byte(Len(fn_out)))
    /\ fn_in' = [op |-> "add", n |-> Len(fn_out)]
    /\ UNCHANGED <<sessvars, histvars, mainvars, televars>>

\* Mlock::remove(Unlocked): pop.
ProbeRemove ==
    /\ pc = "probe"
    /\ fn_out' = Vec_pop(fn_out).vec
    /\ fn_in' = [op |-> "remove", n |-> Len(fn_out)]
    /\ UNCHANGED <<sessvars, histvars, mainvars, televars>>

ProbeNext == ProbeAdd \/ ProbeRemove

ProbeSpec == ProbeInit /\ [][ProbeNext]_vars

\* ================================================================ claims
HeapAddrs(v) == {v[i].addr : i \in 1..Len(v)}

\* C1: on every path that discards a region or ends main, each mapped region
\* is unmapped exactly once: munmap never hits an address that holds no live
\* mapping, while main runs the live mappings are exactly the regions of the
\* two heaps, and once main has stopped nothing is mapped.
C1_UnmappedExactlyOnce ==
    /\ ~os.stale_unmap
    /\ pc # "exit" =>
          os.mapped = HeapAddrs(mlock.locked) \cup HeapAddrs(mlock.unlocked)
    /\ pc = "exit" => os.mapped = {}

\* main returned after a quit with regions in both heaps, all of them released.
C1_Witness ==
    /\ pc = "exit"
    /\ exit_code = 0
    /\ action = Quit
    /\ Len(mlock.locked) >= 1
    /\ Len(mlock.unlocked) >= 1
    /\ os.mapped = {}

Max0(n) == IF n > 0 THEN n ELSE 0

\* C2 as stated: with every add(locked) succeeding, the locked size is
\* quantum x max(0, adds - removes), a non-negative multiple of the quantum.
C2_Original ==
    calls.add_err = 0 =>
        /\ Mlock_fmt(mlock).locked_mb
              = CHUNK_SIZE_MB * Max0(calls.add - calls.remove)
        /\ Mlock_fmt(mlock).locked_mb >= 0
        /\ Mlock_fmt(mlock).locked_mb % CHUNK_SIZE_MB = 0

\* C2 as amended: with every add(locked) succeeding, the locked size is
\* quantum x (adds - removes that found a region), which is never less than
\* quantum x max(0, adds - removes), and is a non-negative multiple of the
\* quantum after every call.
C2_LockedSize ==
    calls.add_err = 0 =>
        /\ Mlock_fmt(mlock).locked_mb
              = CHUNK_SIZE_MB * (calls.add - calls.remove_hit)
        /\ Mlock_fmt(mlock).locked_mb
              >= CHUNK_SIZE_MB * Max0(calls.add - calls.remove)
        /\ Mlock_fmt(mlock).locked_mb >= 0
        /\ Mlock_fmt(mlock).locked_mb % CHUNK_SIZE_MB = 0

\* A remove on the empty locked heap came before the adds: two adds and two
\* removes leave one region.
C2_Witness ==
    /\ calls.add_err = 0
    /\ calls.add = 2
    /\ calls.remove = 2
    /\ calls.remove_hit = 1
    /\ Len(mlock.locked) = 1

\* C3: an add whose mapping fails, or whose locking of the fresh region fails,
\* returns an error, leaves both heaps as they were and leaves no mapping
\* behind.
C3_FailedAdd ==
    (/\ last.op = "add"
     /\ \/ last.mmap_ans = MAP_FAILED
        \/ last.resps \notin {<<>>, <<0>>}) =>
        /\ ret = "Err"
        /\ mlock = last.pre
        /\ os.mapped = last.pre_os.mapped
        /\ os.locked = last.pre_os.locked
        /\ ~os.stale_unmap

\* An add(locked) got its mapping, failed to lock it, and the heaps held
\* regions.
C3_Witness ==
    /\ last.op = "add"
    /\ last.heap = "Locked"
    /\ last.mmap_ans # MAP_FAILED
    /\ last.resps = <<-1>>
    /\ ret = "Err"
    /\ Len(mlock.locked) >= 1
    /\ Len(mlock.unlocked) >= 1

SatDelta(cur, old) == IF cur >= old THEN cur - old ELSE 0

\* C4: the first snapshot's deltas are zero; a later snapshot's delta is
\* current minus previous when the count did not decrease and zero when it
\* did, and collecting never aborts.
C4_Original ==
    /\ exit_code # 101
    /\ sys_prev.some =>
          IF ~sys_given.some
          THEN /\ sys_prev.val.pswpin_delta = 0
               /\ sys_prev.val.pswpout_delta = 0
          ELSE /\ sys_prev.val.pswpin_delta
                     = SatDelta(sys_prev.val.pswpin, sys_given.pswpin)
               /\ sys_prev.val.pswpout_delta
                     = SatDelta(sys_prev.val.pswpout, sys_given.pswpout)

\* C5: whatever the counter sources hold, main leaves its loop only through a
\* quit action (a quit key or an input error), never through telemetry.
C5_Original ==
    (pc = "exit" /\ exit_code # 1) => (action = Quit /\ exit_code = 0)

\* The line of a field in the source drawn, 0 when the field is absent.
LineOf(key) ==
    IF \E i \in 1..Len(fn_in.lines) : fn_in.lines[i].key = key
    THEN CHOOSE i \in 1..Len(fn_in.lines) : fn_in.lines[i].key = key
    ELSE 0
\* The value a field's line spells, 0 when it spells none.
Spelled(key) ==
    LET toks == fn_in.lines[LineOf(key)].toks
    IN  IF Len(toks) >= 1 /\ toks[1] \in 0..(U64_MODULUS - 1) THEN toks[1]
        ELSE 0
Expected(key) == IF LineOf(key) = 0 THEN 0 ELSE Spelled(key)
\* A field's line is read: it does not come after the AnonPages line.
IsRead(key) ==
    /\ LineOf(key) # 0
    /\ LineOf("AnonPages:") # 0 => LineOf(key) <= LineOf("AnonPages:")

\* C6 as stated: in any line order, a field that is absent or unparsable is 0
\* and a field with a numeric value has that value; no error is raised.
C6_Original ==
    pc = "applied" =>
        /\ ~fn_out.panic
        /\ fn_out.proc.mlocked = Expected("Mlocked:")
        /\ fn_out.proc.swap_total = Expected("SwapTotal:")
        /\ fn_out.proc.swap_free = Expected("SwapFree:")
        /\ fn_out.proc.anon_pages = Expected("AnonPages:")

\* C6 as amended: a field whose line is absent, unparsable or placed after the
\* AnonPages line is 0, and a field with a numeric value on a line not after
\* the AnonPages line has that value; no error is raised.
C6_Meminfo ==
    pc = "applied" =>
        /\ ~fn_out.panic
        /\ fn_out.proc.mlocked
              = IF IsRead("Mlocked:") THEN Spelled("Mlocked:") ELSE 0
        /\ fn_out.proc.swap_total
              = IF IsRead("SwapTotal:") THEN Spelled("SwapTotal:") ELSE 0
        /\ fn_out.proc.swap_free
              = IF IsRead("SwapFree:") THEN Spelled("SwapFree:") ELSE 0
        /\ fn_out.proc.anon_pages = Expected("AnonPages:")

\* A source without its SwapTotal line, the other three fields in the
\* kernel's order with numeric values: swap total 0, the others as spelled.
C6_Witness ==
    /\ pc = "applied"
    /\ Len(fn_in.lines) = 3
    /\ LineOf("SwapTotal:") = 0
    /\ LineOf("AnonPages:") = 3
    /\ fn_out.proc.swap_total = 0
    /\ fn_out.proc.mlocked = 1
    /\ fn_out.proc.swap_free = 2
    /\ fn_out.proc.anon_pages = 2

PreHeap(n) == IF n.heap = "Locked" THEN n.pre.locked ELSE n.pre.unlocked
NowHeap(n) == IF n.heap = "Locked" THEN mlock.locked ELSE mlock.unlocked
PreOther(n) == IF n.heap = "Locked" THEN n.pre.unlocked ELSE n.pre.locked
NowOther(n) == IF n.heap = "Locked" THEN mlock.unlocked ELSE mlock.locked
ButLast(v) == [i \in 1..(Len(v) - 1) |-> v[i]]

\* C7: remove(kind) on an empty heap returns false and changes nothing;
\* otherwise it returns true, takes exactly the most recently added region off
\* that heap, unmaps it and leaves the other heap alone.
C7_RemoveLifo ==
    last.op = "remove" =>
        IF PreHeap(last) = <<>>
        THEN /\ ret = "false"
             /\ mlock = last.pre
             /\ os = last.pre_os
        ELSE /\ ret = "true"
             /\ NowHeap(last) = ButLast(PreHeap(last))
             /\ NowOther(last) = PreOther(last)
             /\ os.mapped = last.pre_os.mapped
                               \ {PreHeap(last)[Len(PreHeap(last))].addr}

\* add(unlocked) twice on an empty unlocked heap, then remove(unlocked): the
\* heap holds the region added first.
C7_Witness ==
    /\ last.op = "remove"
    /\ last.heap = "Unlocked"
    /\ prev = [op |-> "add", heap |-> "Unlocked", ret |-> "Ok"]
    /\ Len(last.pre.unlocked) = 2
    /\ mlock.unlocked = <<last.pre.unlocked[1]>>
    /\ last.pre.unlocked[1] # last.pre.unlocked[2]

\* C8: a successful add(unlocked) followed at once by remove(unlocked) leaves
\* both heaps as they were before the add: the same regions in the same order.
C8_AddRemoveRoundTrip ==
    [][(/\ last.op = "add"
        /\ last.heap = "Unlocked"
        /\ last.ret = "Ok"
        /\ last'.op = "remove"
        /\ last'.heap = "Unlocked") =>
            /\ mlock' = last.pre
            /\ Len(mlock'.unlocked) = Len(last.pre.unlocked)]_vars

\* The pair was made on a session with regions in both heaps.
C8_Witness ==
    /\ last.op = "remove"
    /\ last.heap = "Unlocked"
    /\ prev = [op |-> "add", heap |-> "Unlocked", ret |-> "Ok"]
    /\ Len(mlock.unlocked) >= 1
    /\ Len(mlock.locked) >= 1

\* C9: no address handle occurs twice in the two heaps taken together, every
\* handle in a heap is a live mapping, and every region is 256 MB long.
C9_HeapsDisjoint ==
    LET all == mlock.locked \o mlock.unlocked
    IN  /\ \A i, j \in 1..Len(all) : all[i].addr = all[j].addr => i = j
        /\ \A i \in 1..Len(all) :
              /\ all[i].addr \in os.mapped
              /\ all[i].len = 256 * 1024 * 1024

\* Regions in both heaps, the last one added right after a remove released one.
C9_Witness ==
    /\ Len(mlock.locked) >= 1
    /\ Len(mlock.unlocked) >= 2
    /\ last.op = "add"
    /\ prev.op = "remove"
    /\ prev.ret = "true"

\* C10: page_in changes neither heap and returns no error; it tries every
\* region of the unlocked heap in insertion order whatever the earlier regions
\* answered; a second page_in in a row leaves the heaps, the mappings and
\* their contents as the first one left them.
C10_PageIn ==
    last.op = "page_in" =>
        /\ mlock = last.pre
        /\ ret = "unit"
        /\ last.tried = [i \in 1..Len(last.pre.unlocked) |->
                            last.pre.unlocked[i].addr]
        /\ prev.op = "page_in" =>
              /\ mlock = last.pre
              /\ os.mapped = last.pre_os.mapped
              /\ os.bytes = last.pre_os.bytes

\* Two page_in calls in a row on two unlocked regions, the first region's
\* page-in failing and the second still tried.
C10_Witness ==
    /\ last.op = "page_in"
    /\ prev.op = "page_in"
    /\ Len(mlock.unlocked) = 2
    /\ last.resps[1] = -1
    /\ Len(last.tried) = 2


\* The offsets 0, P, 2P, ... below L: ceil(L / P) of them.
PageStarts(L, P) == {i * P : i \in 0..((L + P - 1) \div P - 1)}

\* C11: fill(v) on a region of length L with page size P writes v to exactly
\* the ceil(L / P) offsets 0, P, 2P, ... below L and to no other byte, and P
\* is 4096 when the page size cannot be determined (sysconf answers -1 or 0).
C11_Original ==
    pc = "filled" =>
        /\ ~fn_out.panic
        /\ fn_out.writes =
              [o \in PageStarts(fn_in.len,
                                IF fn_in.sysconf > 0 THEN fn_in.sysconf
                                ELSE FILL_DEFAULT_PAGE_SIZE) |-> fn_in.val]


\* The key bindings, by key code alone.
KeyTable(code) ==
    CASE code \in {"+", "="} -> ActAdd("Locked")
      [] code \in {"-", "_"} -> ActRemove("Locked")
      [] code \in {"]", "}"} -> ActAdd("Unlocked")
      [] code \in {"[", "{"} -> ActRemove("Unlocked")
      [] code \in {"p", "P"} -> ActPageIn
      [] code \in {"q", "Esc"} -> Quit
      [] OTHER -> Redraw

\* The decoding of a poll result when the Control chords are the ones whose
\* modifiers are in `chords`.
DecodeWith(poll, chords) ==
    IF poll.res = "Err" THEN Quit
    ELSE IF poll.res = "None" THEN Redraw
    ELSE IF poll.modifiers \in chords /\ poll.code \in {"c", "d"} THEN Quit
    ELSE IF poll.modifiers \in {"NONE", "SHIFT"} THEN KeyTable(poll.code)
    ELSE Redraw

\* C12 as stated: the key bindings decode to their actions, a poll error to
\* quit, a timeout and every other input to redraw, and Ctrl+C and Ctrl+D
\* decode to quit whatever other modifiers are held.
C12_Original ==
    pc = "decoded" => fn_out = DecodeWith(fn_in, {"CONTROL", "CONTROL|SHIFT"})

\* C12: decoding is a total function of the poll result: with no modifier or
\* Shift alone the key bindings decode to their actions; Ctrl+C and Ctrl+D
\* decode to quit when Control is the only modifier held; a poll error
\* decodes to quit; a timeout and every other input, a Control chord with a
\* further modifier included, decode to redraw.
C12_Decode ==
    pc = "decoded" =>
        /\ fn_out = DecodeWith(fn_in, {"CONTROL"})
        /\ fn_out \in {Redraw, Quit, ActPageIn}
                        \cup {ActAdd(h) : h \in MlockHeap}
                        \cup {ActRemove(h) : h \in MlockHeap}

\* Ctrl+Shift+C has been decoded, to redraw.
C12_Witness ==
    /\ pc = "decoded"
    /\ fn_in.res = "Key"
    /\ fn_in.modifiers = "CONTROL|SHIFT"
    /\ fn_in.code = "c"
    /\ fn_out = Redraw


\* C13: main leaves its loop exactly when the decoded action is quit; after
\* an add, a remove, a page-in or a redraw, failed or not, it is in the loop
\* again.
C13_Original ==
    /\ action = Quit <=> (pc = "exit" /\ exit_code # 1)
    /\ action.kind \in {"Add", "Remove", "PageIn", "Redraw"} =>
          pc \in {"collect", "wait"}


\* C14: for every region and every kernel response, lock-then-unlock and the
\* copy loop return the same outcome, and after either every page of the
\* region has been faulted in.
C14_Original ==
    pc = "populated" =>
        /\ fn_out.lock.ret = fn_out.copy.ret
        /\ fn_out.lock.resident = PagesOf(fn_in.len, fn_in.page_size)
        /\ fn_out.copy.resident = PagesOf(fn_in.len, fn_in.page_size)


\* The byte the last add filled its region with, and the bytes of the regions
\* that were in the heap before it.
LastByte == fn_out[Len(fn_out)]
EarlierBytes == {fn_out[i] : i \in 1..(Len(fn_out) - 1)}

\* C15 as stated: whatever the number of unlocked regions, the probe byte of
\* an add is (regions before the add + 1) truncated to 8 bits, is not zero
\* and differs from the fill byte of every other region of the heap.
C15_Original ==
    (fn_in.op = "add" /\ pc = "probe") =>
        /\ LastByte = (fn_in.n + 1) % U8_MODULUS
        /\ LastByte # 0
        /\ LastByte \notin EarlierBytes

\* C15: the probe byte of a successful add(unlocked) is (regions in the
\* unlocked heap before the add + 1) truncated to 8 bits; with fewer than 255
\* regions before the add it is not zero and differs from the fill byte of
\* every other region of the heap; with exactly 255 it is zero, and with 256
\* or more it repeats the byte of an earlier region.
C15_ProbeByte ==
    (fn_in.op = "add" /\ pc = "probe") =>
        /\ LastByte = (fn_in.n + 1) % U8_MODULUS
        /\ fn_in.n < U8_MODULUS - 1 =>
              (LastByte # 0 /\ LastByte \notin EarlierBytes)
        /\ fn_in.n = U8_MODULUS - 1 => LastByte = 0
        /\ fn_in.n >= U8_MODULUS => LastByte \in EarlierBytes

\* The 255th region has been added and filled with 255.
C15_Witness ==
    /\ pc = "probe"
    /\ fn_in.op = "add"
    /\ fn_in.n = U8_MODULUS - 2
    /\ LastByte = U8_MODULUS - 1


\* C16: main holds the terminal in raw mode with the cursor hidden as long as
\* its loop runs, and whenever the process has ended, by a quit key, a Control
\* chord, an input error, a panic or a failed Term::new, the terminal is out
\* of raw mode and the cursor is shown: a Term::new that failed, by hiding
\* the cursor too, has left raw mode disabled.
C16_TermRestored ==
    /\ pc \in {"collect", "wait"} => (term.raw /\ term.cursor_hidden)
    /\ pc = "exit" => (~term.raw /\ ~term.cursor_hidden)

\* main has ended by a quit action after its loop ran.
C16_Witness ==
    /\ pc = "exit"
    /\ exit_code = 0
    /\ action = Quit
    /\ sys_prev.some


\* C17: every iteration of main's loop, reached by a key action or by a
\* timeout, collects a snapshot whose `prev` is the snapshot the iteration
\* before rendered, none in the first iteration, and keeps the snapshot it
\* rendered as the only previous one; waiting for input changes neither.
C17_SnapshotChain ==
    [][/\ (pc = "collect" /\ pc' = "wait") =>
             /\ sys_given' = Given(rendered)
             /\ rendered'.some
             /\ sys_prev' = rendered'
       /\ (pc = "collect" /\ action = NoAction) => ~rendered.some
       /\ pc = "wait" => (sys_prev' = sys_prev /\ rendered' = rendered)]_vars

\* A second iteration reached by a timeout has collected: the snapshot it was
\* given is the one rendered before, and differs from the one rendered now.
C17_Witness ==
    /\ pc = "wait"
    /\ action = Redraw
    /\ sys_given.some
    /\ sys_given.pswpin # rendered.val.pswpin
    /\ sys_prev = rendered


\* C18: while the session lives, after every add, remove and page_in, the
\* kernel holds locked exactly the regions of the locked heap: every region
\* of the locked heap is locked and every region of the unlocked heap is not,
\* also after a page_in whose mlock succeeded for some regions (munlock
\* follows) and failed for others (munlock is skipped).
C18_LockState ==
    pc # "exit" =>
        /\ \A i \in 1..Len(mlock.locked) : mlock.locked[i].addr \in os.locked
        /\ \A i \in 1..Len(mlock.unlocked) :
              mlock.unlocked[i].addr \notin os.locked
        /\ os.locked \subseteq HeapAddrs(mlock.locked)

\* A page_in over two unlocked regions, the first one's mlock succeeding and
\* the second one's failing, next to a locked region.
C18_Witness ==
    /\ last.op = "page_in"
    /\ last.resps = <<0, -1>>
    /\ Len(last.tried) = 2
    /\ Len(mlock.locked) = 1

====
